---- MODULE Spec2Model ----
(***************************************************************************)
(* RESP codec of rust-simple-redis: the frame model (src/resp.rs), the     *)
(* incremental decoder (src/resp/decode.rs) and the encoder                *)
(* (src/resp/encode.rs), driven by a connection that appends the bytes it  *)
(* reads to a buffer and calls the decoder on it.                          *)
(*                                                                         *)
(* A byte is a one-character string; a buffer (BytesMut, &[u8], Vec<u8>,   *)
(* and a String, which is its UTF-8 bytes) is a sequence of bytes.         *)
(* Offsets are 0-based as in the source; Slice/Skip convert.               *)
(***************************************************************************)
EXTENDS Integers, Sequences, FiniteSets, TLC

VARIABLES
    buf,      \* the connection's buffer, the BytesMut handed to decode
    wire,     \* bytes written by the peer and not yet read into buf
    sent,     \* the frames the peer's encoder put on the wire, in order
    raw,      \* TRUE when the peer wrote bytes that are not encoder output
    recv,     \* the frames returned by the successful decode calls, in order
    direct,   \* TRUE when a per-variant decode has been called on buf
    call,     \* the decode call that has just returned: entry point, buffer
              \* before, outcome; NoCall once further bytes have been read
    enc,      \* the encode call of the peer that has last returned or
              \* aborted: frame, outcome, bytes returned
    decoder,  \* the decode function the caller calls on buf, "none" before
              \* its first call
    waited,   \* TRUE once a call has returned NotComplete
    cmd,      \* the conversion of the decoded Array into a command that has
              \* last returned: command, array, validation, outcome
    overflow_checks  \* the build's `overflow-checks`: TRUE in the dev and test
              \* profiles (an arithmetic overflow panics), FALSE in release
              \* (it wraps)

vars == <<buf, wire, sent, raw, recv, direct, call, enc, decoder, waited, cmd, overflow_checks>>

\* ------------------------------------------------------------------ bounds
MaxItems == 2
MaxFrames == 2

\* ------------------------------------------------------------------- bytes
CR == "\r"
LF == "\n"
CRLF == <<CR, LF>>
CRLF_LEN == Len(CRLF)

Digits == <<"0", "1", "2", "3", "4", "5", "6", "7", "8", "9">>
IsDigit(c) == \E i \in 1..10 : Digits[i] = c
DigitVal(c) == (CHOOSE i \in 1..10 : Digits[i] = c) - 1

\* buf[from..to], buf[from..] and starts_with, with the source's 0-based offsets
Slice(b, from, to) == SubSeq(b, from + 1, to)
Skip(b, n) == SubSeq(b, n + 1, Len(b))
StartsWith(b, p) == Len(b) >= Len(p) /\ SubSeq(b, 1, Len(p)) = p

\* The one byte of the model that is not valid UTF-8 on its own, and the
\* three bytes of U+FFFD that String::from_utf8_lossy puts in its place.
BadByte == "xFF"
Replacement == <<"xEF", "xBF", "xBD">>

RECURSIVE from_utf8_lossy(_)
from_utf8_lossy(b) ==
    IF b = <<>> THEN <<>>
    ELSE (IF Head(b) = BadByte THEN Replacement ELSE <<Head(b)>>)
             \o from_utf8_lossy(Tail(b))

\* ------------------------------------------------------------ numerals
RECURSIVE DigitsValue(_, _)
DigitsValue(s, acc) ==
    IF s = <<>> THEN acc ELSE DigitsValue(Tail(s), 10 * acc + DigitVal(Head(s)))

AllDigits(s) == s # <<>> /\ \A i \in 1..Len(s) : IsDigit(s[i])

\* Decimal numerals as digit sequences: without leading zeros, and ordered
\* by value
RECURSIVE StripLeadingZeros(_)
StripLeadingZeros(d) ==
    IF Len(d) > 1 /\ Head(d) = "0" THEN StripLeadingZeros(Tail(d)) ELSE d

RECURSIVE LexLess(_, _)
LexLess(a, b) ==
    IF a = <<>> \/ b = <<>> THEN FALSE
    ELSE IF Head(a) = Head(b) THEN LexLess(Tail(a), Tail(b))
    ELSE DigitVal(Head(a)) < DigitVal(Head(b))

NumLess(a, b) == Len(a) < Len(b) \/ (Len(a) = Len(b) /\ LexLess(a, b))

\* usize is 64 bits wide.  A usize is held as the representative nearest to
\* zero of its residue modulo 2^64: n itself for the small values, and
\* n - 2^64 for the values just below 2^64 (usize::MAX is -1), so that a
\* wrapping sum is the sum of the representatives.
UsizeMax == <<"1", "8", "4", "4", "6", "7", "4", "4", "0", "7",
              "3", "7", "0", "9", "5", "5", "1", "6", "1", "5">>
TopDigits == 15

usize_lt(a, b) == IF (a < 0) = (b < 0) THEN a < b ELSE b < 0
add_overflows(a, b) == a < 0 /\ a + b >= 0
mul_overflows(a, b) == a < 0 /\ b > 1

\* str::parse::<usize>: an optional '+', then one or more digits; a numeral
\* above usize::MAX is an error (PosOverflow).  The numerals of the inputs
\* below have at most three digits or lie just below 2^64.
parse_usize(s) ==
    LET d == IF s # <<>> /\ Head(s) = "+" THEN Tail(s) ELSE s
        low(z) == DigitsValue(SubSeq(z, TopDigits + 1, Len(z)), 0)
        value(z) ==
            IF NumLess(UsizeMax, z) THEN [st |-> "ParseIntError", val |-> 0]
            ELSE IF Len(z) = Len(UsizeMax)
                    /\ SubSeq(z, 1, TopDigits) = SubSeq(UsizeMax, 1, TopDigits)
            THEN [st |-> "Ok", val |-> low(z) - low(UsizeMax) - 1]
            ELSE [st |-> "Ok", val |-> DigitsValue(z, 0)]
    IN  IF AllDigits(d) THEN value(StripLeadingZeros(d))
        ELSE [st |-> "ParseIntError", val |-> 0]

\* i64 is 64 bits wide.  An i64 is held as its sign and the decimal numeral
\* of its magnitude, without leading zeros; zero is not negative.
I64Value(neg, mag) == [neg |-> neg, mag |-> mag]

I64MaxMag == <<"9", "2", "2", "3", "3", "7", "2", "0", "3", "6",
               "8", "5", "4", "7", "7", "5", "8", "0", "7">>
I64MinMag == <<"9", "2", "2", "3", "3", "7", "2", "0", "3", "6",
               "8", "5", "4", "7", "7", "5", "8", "0", "8">>
I64_MAX == I64Value(FALSE, I64MaxMag)
I64_MIN == I64Value(TRUE, I64MinMag)

\* str::parse::<i64>: an optional '+' or '-', then one or more digits; a
\* numeral outside i64::MIN..=i64::MAX is an error (PosOverflow, NegOverflow)
parse_i64(s) ==
    LET signed == s # <<>> /\ Head(s) \in {"+", "-"}
        neg == signed /\ Head(s) = "-"
        d == IF signed THEN Tail(s) ELSE s
        failed == [st |-> "ParseIntError", val |-> I64Value(FALSE, <<"0">>)]
        value(z) ==
            IF NumLess(IF neg THEN I64MinMag ELSE I64MaxMag, z) THEN failed
            ELSE [st |-> "Ok", val |-> I64Value(neg /\ z # <<"0">>, z)]
    IN  IF AllDigits(d) THEN value(StripLeadingZeros(d)) ELSE failed

\* the decimal exponent of a float numeral: an optional sign and digits
parse_exponent(s) ==
    LET signed == s # <<>> /\ Head(s) \in {"+", "-"}
        d == IF signed THEN Tail(s) ELSE s
    IN  IF AllDigits(d)
        THEN [st |-> "Ok",
              val |-> IF signed /\ Head(s) = "-" THEN 0 - DigitsValue(d, 0)
                      ELSE DigitsValue(d, 0)]
        ELSE [st |-> "ParseFloatError", val |-> 0]

\* A double is held as its shortest decimal numeral: sign, integral part,
\* fractional digits without trailing zeros.
RECURSIVE StripZeros(_)
StripZeros(d) ==
    IF d # <<>> /\ d[Len(d)] = "0" THEN StripZeros(SubSeq(d, 1, Len(d) - 1)) ELSE d

Dbl(neg, int, frac) == [neg |-> neg, int |-> int, frac |-> frac]

DotAt(s) == IF \E i \in 1..Len(s) : s[i] = "."
            THEN CHOOSE i \in 1..Len(s) : s[i] = "." /\ \A j \in 1..(i - 1) : s[j] # "."
            ELSE 0

ExpAt(s) == IF \E i \in 1..Len(s) : s[i] \in {"e", "E"}
            THEN CHOOSE i \in 1..Len(s) :
                     s[i] \in {"e", "E"} /\ \A j \in 1..(i - 1) : s[j] \notin {"e", "E"}
            ELSE 0

Zeros(k) == [i \in 1..k |-> "0"]

\* the decimal numeral ip.fp times 10^e
Scaled(neg, ip, fp, e) ==
    IF e >= 0
    THEN LET f == fp \o Zeros(e)
         IN  Dbl(neg, DigitsValue(ip \o SubSeq(f, 1, e), 0),
                 StripZeros(SubSeq(f, e + 1, Len(f))))
    ELSE LET i == Zeros(0 - e) \o ip
         IN  Dbl(neg, DigitsValue(SubSeq(i, 1, Len(i) + e), 0),
                 StripZeros(SubSeq(i, Len(i) + e + 1, Len(i)) \o fp))

\* str::parse::<f64> on decimal numerals: an optional sign, digits with an
\* optional '.' (at least one digit in all), an optional exponent.  The
\* spellings of infinity and NaN do not occur in the inputs below.
parse_f64(s) ==
    LET signed == s # <<>> /\ Head(s) \in {"+", "-"}
        neg == signed /\ Head(s) = "-"
        u == IF signed THEN Tail(s) ELSE s
        ex == ExpAt(u)
        d == IF ex = 0 THEN u ELSE SubSeq(u, 1, ex - 1)
        e == IF ex = 0 THEN [st |-> "Ok", val |-> 0]
             ELSE parse_exponent(SubSeq(u, ex + 1, Len(u)))
        dot == DotAt(d)
        ip == IF dot = 0 THEN d ELSE SubSeq(d, 1, dot - 1)
        fp == IF dot = 0 THEN <<>> ELSE SubSeq(d, dot + 1, Len(d))
        digitsOnly(x) == \A i \in 1..Len(x) : IsDigit(x[i])
    IN  IF digitsOnly(ip) /\ digitsOnly(fp) /\ Len(ip) + Len(fp) > 0 /\ e.st = "Ok"
        THEN [st |-> "Ok", val |-> Scaled(neg, ip, fp, e.val)]
        ELSE [st |-> "ParseFloatError", val |-> Dbl(FALSE, 0, <<>>)]

\* Display of an unsigned number
RECURSIVE to_string(_)
to_string(n) ==
    IF n < 10 THEN <<Digits[n + 1]>> ELSE to_string(n \div 10) \o <<Digits[(n % 10) + 1]>>

\* the i64 of a small integer
I64(n) == I64Value(n < 0, to_string(IF n < 0 THEN 0 - n ELSE n))

\* Display of an i64
i64_to_string(n) == (IF n.neg THEN <<"-">> ELSE <<>>) \o n.mag

\* Display of a double: '-' for a negative one, the integral digits, and
\* '.' with the fractional digits when there are any
f64_to_string(v) ==
    (IF v.neg THEN <<"-">> ELSE <<>>) \o to_string(v.int)
        \o (IF v.frac = <<>> THEN <<>> ELSE <<".">> \o v.frac)

\* ------------------------------------------------------------ frame model
\* a frame is the pair of its variant and its payload
Frame(tag, val) == <<tag, val>>
Tag(f) == f[1]
Val(f) == f[2]

SimpleString(s) == Frame("SimpleString", s)
SimpleError(s) == Frame("Error", s)
BulkError(s) == Frame("BulkError", s)
Integer(n) == Frame("Integer", n)
BulkString(b) == Frame("BulkString", b)
NullBulkString == Frame("NullBulkString", <<>>)
Array(items) == Frame("Array", items)
NullArray == Frame("NullArray", <<>>)
Null == Frame("Null", <<>>)
Boolean(b) == Frame("Boolean", b)
Double(v) == Frame("Double", v)
Map(entries) == Frame("Map", entries)
Set(items) == Frame("Set", items)

\* Byte order of the bytes that occur in map keys (String's Ord)
KeyOrder == <<"0", "1", "2", "a", "b", "k", "v">>
Rank(c) == IF \E i \in 1..Len(KeyOrder) : KeyOrder[i] = c
           THEN CHOOSE i \in 1..Len(KeyOrder) : KeyOrder[i] = c
           ELSE 0

RECURSIVE KeyLess(_, _)
KeyLess(a, b) ==
    IF b = <<>> THEN FALSE
    ELSE IF a = <<>> THEN TRUE
    ELSE IF Head(a) = Head(b) THEN KeyLess(Tail(a), Tail(b))
    ELSE Rank(Head(a)) < Rank(Head(b))

\* BTreeMap::insert on the entries held in key order, as <<key, value>> pairs
RECURSIVE BTreeInsert(_, _, _)
BTreeInsert(m, k, v) ==
    IF m = <<>> THEN <<<<k, v>>>>
    ELSE IF Head(m)[1] = k THEN <<<<k, v>>>> \o Tail(m)
    ELSE IF KeyLess(k, Head(m)[1]) THEN <<<<k, v>>>> \o m
    ELSE <<Head(m)>> \o BTreeInsert(Tail(m), k, v)

\* ------------------------------------------------------- boundary scanner
\* Result<T, RespError> together with the buffer as the call leaves it.  A
\* panic (slice or index out of range, usize underflow) is the status "Panic".
Ok(val, b) == [st |-> "Ok", val |-> val, buf |-> b]
Err(e, b) == [st |-> e, val |-> Null, buf |-> b]

NotFound == 0 - 1
Panicked == 0 - 2

\* the loop of find_crlf from index i on, with count terminators seen so far
RECURSIVE find_crlf_loop(_, _, _, _)
find_crlf_loop(b, nth, i, count) ==
    IF i >= Len(b) - 1 THEN NotFound
    ELSE IF b[i + 1] = CR /\ b[i + 2] = LF
         THEN IF count + 1 = nth THEN i ELSE find_crlf_loop(b, nth, i + 1, count + 1)
         ELSE find_crlf_loop(b, nth, i + 1, count)

\* Index of the '\r' of the nth CRLF found from index 1 on, NotFound for None.
\* On an empty slice `buf.len() - 1` underflows: a panic with overflow checks,
\* and without them the range runs to usize::MAX and buf[1] is out of range.
find_crlf(b, nth) ==
    IF Len(b) = 0 THEN Panicked ELSE find_crlf_loop(b, nth, 1, 0)

\* a line without its terminator taken for a malformed one
extract_simple_frame_data_unterminated(b, prefix) ==
    IF Len(b) < 3 THEN Err("NotComplete", b)
    ELSE IF ~StartsWith(b, <<prefix>>) THEN Err("InvalidFrameType", b)
    ELSE LET found(end) ==
                 IF end = Panicked THEN Err("Panic", b)
                 ELSE IF end = NotFound THEN Err("InvalidFrame", b)
                 ELSE Ok(end, b)
         IN  found(find_crlf(b, 1))

extract_simple_frame_data(b, prefix) ==
    IF Len(b) < 3 THEN Err("NotComplete", b)
    ELSE IF ~StartsWith(b, <<prefix>>) THEN Err("InvalidFrameType", b)
    ELSE LET found(end) ==
                 IF end = Panicked THEN Err("Panic", b)
                 ELSE IF end = NotFound THEN Err("NotComplete", b)
                 ELSE Ok(end, b)
         IN  found(find_crlf(b, 1))

\* the buffer advanced before the comparison
extract_fixed_data_eager(b, expect) ==
    IF Len(b) < Len(expect) THEN Err("NotComplete", b)
    ELSE IF ~StartsWith(b, expect) THEN Err("InvalidFrameType", Skip(b, Len(expect)))
    ELSE Ok(Null, Skip(b, Len(expect)))

extract_fixed_data(b, expect) ==
    IF Len(b) < Len(expect) THEN Err("NotComplete", b)
    ELSE IF ~StartsWith(b, expect) THEN Err("InvalidFrameType", b)
    ELSE Ok(Null, Skip(b, Len(expect)))

\* Ok carries <<end, len>>
parse_length(b, prefix) ==
    LET parsed(e, n) == IF n.st # "Ok" THEN Err(n.st, b) ELSE Ok(<<e.val, n.val>>, b)
        line(e) == IF e.st # "Ok" THEN e
                   ELSE parsed(e, parse_usize(from_utf8_lossy(Slice(b, 1, e.val))))
    IN  line(extract_simple_frame_data(b, prefix))

\* the terminator of the last element counted into the total
cal_total_length_with_terminator(b, len, prefix) ==
    IF add_overflows(len, CRLF_LEN) /\ overflow_checks THEN Err("Panic", b)
    ELSE IF usize_lt(Len(b), len + CRLF_LEN) THEN Err("Panic", b)
    ELSE LET found(end) ==
                 IF end = Panicked THEN Err("Panic", b)
                 ELSE IF end = NotFound THEN Err("NotComplete", b)
                 ELSE Ok(len + CRLF_LEN + end + CRLF_LEN, b)
         IN  IF prefix \in {"*", "~"} THEN found(find_crlf(Skip(b, len + CRLF_LEN), len))
             ELSE IF prefix = "%"
             THEN IF mul_overflows(len, 2) /\ overflow_checks THEN Err("Panic", b)
                  ELSE found(find_crlf(Skip(b, len + CRLF_LEN), len * 2))
             ELSE Ok(len + CRLF_LEN, b)

\* `&buf[len + CRLF_LEN..]` panics when the sum overflows under overflow
\* checks and when the start lies past the end of the buffer
cal_total_length(b, len, prefix) ==
    IF add_overflows(len, CRLF_LEN) /\ overflow_checks THEN Err("Panic", b)
    ELSE IF usize_lt(Len(b), len + CRLF_LEN) THEN Err("Panic", b)
    ELSE LET found(end) ==
                 IF end = Panicked THEN Err("Panic", b)
                 ELSE IF end = NotFound THEN Err("NotComplete", b)
                 ELSE Ok(len + CRLF_LEN + end, b)
         IN  IF prefix \in {"*", "~"} THEN found(find_crlf(Skip(b, len + CRLF_LEN), len))
             ELSE IF prefix = "%"
             THEN IF mul_overflows(len, 2) /\ overflow_checks THEN Err("Panic", b)
                  ELSE found(find_crlf(Skip(b, len + CRLF_LEN), len * 2))
             ELSE Ok(len + CRLF_LEN, b)

\* ----------------------------------------------------------------- decoder
\* In each decoder `end` is the offset extract_simple_frame_data returned and
\* `data` what buf.split_to(end + CRLF_LEN) returned.
SimpleString_decode(b) ==
    LET split(end, data) ==
            Ok(SimpleString(from_utf8_lossy(Slice(data, 1, end))), Skip(b, end + CRLF_LEN))
        line(e) == IF e.st # "Ok" THEN e ELSE split(e.val, Slice(b, 0, e.val + CRLF_LEN))
    IN  line(extract_simple_frame_data(b, "+"))

SimpleError_decode(b) ==
    LET split(end, data) ==
            Ok(SimpleError(from_utf8_lossy(Slice(data, 1, end))), Skip(b, end + CRLF_LEN))
        line(e) == IF e.st # "Ok" THEN e ELSE split(e.val, Slice(b, 0, e.val + CRLF_LEN))
    IN  line(extract_simple_frame_data(b, "-"))

BulkError_decode(b) ==
    LET split(end, data) ==
            Ok(BulkError(from_utf8_lossy(Slice(data, 1, end))), Skip(b, end + CRLF_LEN))
        line(e) == IF e.st # "Ok" THEN e ELSE split(e.val, Slice(b, 0, e.val + CRLF_LEN))
    IN  line(extract_simple_frame_data(b, "!"))

Null_decode(b) ==
    LET fixed(r) == IF r.st # "Ok" THEN r ELSE Ok(Null, r.buf)
    IN  fixed(extract_fixed_data(b, <<"_">> \o CRLF))

NullArray_decode(b) ==
    LET fixed(r) == IF r.st # "Ok" THEN r ELSE Ok(NullArray, r.buf)
    IN  fixed(extract_fixed_data(b, <<"*", "-", "1">> \o CRLF))

NullBulkString_decode(b) ==
    LET fixed(r) == IF r.st # "Ok" THEN r ELSE Ok(NullBulkString, r.buf)
    IN  fixed(extract_fixed_data(b, <<"$", "-", "1">> \o CRLF))

\* the buffer is split before the payload is parsed
i64_decode(b) ==
    LET parsed(end, n) ==
            IF n.st # "Ok" THEN Err(n.st, Skip(b, end + CRLF_LEN))
            ELSE Ok(Integer(n.val), Skip(b, end + CRLF_LEN))
        split(end, data) == parsed(end, parse_i64(from_utf8_lossy(Slice(data, 1, end))))
        line(e) == IF e.st # "Ok" THEN e ELSE split(e.val, Slice(b, 0, e.val + CRLF_LEN))
    IN  line(extract_simple_frame_data(b, ":"))

\* whatever is not `#t\r\n` taken for false
bool_decode_lenient(b) ==
    LET first(t) ==
            IF t.st = "Ok" THEN Ok(Boolean(TRUE), t.buf)
            ELSE IF t.st = "NotComplete" THEN t
            ELSE Ok(Boolean(FALSE), Skip(t.buf, 4))
    IN  first(extract_fixed_data(b, <<"#", "t">> \o CRLF))

bool_decode(b) ==
    LET second(f) == IF f.st = "Ok" THEN Ok(Boolean(FALSE), f.buf) ELSE f
        first(t) ==
            IF t.st = "Ok" THEN Ok(Boolean(TRUE), t.buf)
            ELSE IF t.st = "NotComplete" THEN t
            ELSE second(extract_fixed_data(t.buf, <<"#", "f">> \o CRLF))
    IN  first(extract_fixed_data(b, <<"#", "t">> \o CRLF))

\* `len + CRLF_LEN` panics when it overflows under overflow checks, and
\* `data[..len]` when len is more than the bytes split off
BulkString_decode(b) ==
    LET split(len, remained, data) ==
            IF usize_lt(Len(data), len) THEN Err("Panic", b)
            ELSE Ok(BulkString(Slice(data, 0, len)), Skip(remained, len + CRLF_LEN))
        sized(len, remained) ==
            IF add_overflows(len, CRLF_LEN) /\ overflow_checks THEN Err("Panic", b)
            ELSE IF usize_lt(Len(remained), len + CRLF_LEN) THEN Err("NotComplete", b)
            ELSE split(len, remained, Slice(remained, 0, len + CRLF_LEN))
        header(p) ==
            IF p.st # "Ok" THEN p ELSE sized(p.val[2], Skip(b, p.val[1] + CRLF_LEN))
    IN  header(parse_length(b, "$"))

f64_decode(b) ==
    LET parsed(end, v) ==
            IF v.st # "Ok" THEN Err(v.st, Skip(b, end + CRLF_LEN))
            ELSE Ok(Double(v.val), Skip(b, end + CRLF_LEN))
        split(end, data) == parsed(end, parse_f64(from_utf8_lossy(Slice(data, 1, end))))
        line(e) == IF e.st # "Ok" THEN e ELSE split(e.val, Slice(b, 0, e.val + CRLF_LEN))
    IN  line(extract_simple_frame_data(b, ","))

\* what RespFrame::decode matches on
peek(b) == IF b = <<>> THEN "" ELSE Head(b)

\* the `_ =>` arm of RespFrame::decode
invalid_frame_type_unfinished(b) == Err("NotComplete", b)
invalid_frame_type(b) == Err("InvalidFrame", b)

RECURSIVE RespFrame_decode(_)

\* `for _ in 0..len { array.push(RespFrame::decode(buf)?) }`
RECURSIVE decode_frames(_, _, _)
decode_frames(b, n, acc) ==
    LET pushed(r) ==
            IF r.st # "Ok" THEN r ELSE decode_frames(r.buf, n - 1, Append(acc, r.val))
    IN  IF n = 0 THEN Ok(acc, b) ELSE pushed(RespFrame_decode(b))

\* `for _ in 0..len { key = SimpleString::decode(buf)?; value =
\* RespFrame::decode(buf)?; frames.insert(key.0, value) }`
RECURSIVE decode_entries(_, _, _)
decode_entries(b, n, acc) ==
    LET inserted(k, v) ==
            IF v.st # "Ok" THEN v
            ELSE decode_entries(v.buf, n - 1, BTreeInsert(acc, Val(k.val), v.val))
        keyed(k) == IF k.st # "Ok" THEN k ELSE inserted(k, RespFrame_decode(k.buf))
    IN  IF n = 0 THEN Ok(acc, b) ELSE keyed(SimpleString_decode(b))

\* the header checks shared by Array, Map and Set: parse_length, then
\* cal_total_length, then the length guard; Ok carries <<end, len>>
container_header(b, prefix) ==
    LET guarded(p, t) ==
            IF t.st # "Ok" THEN t
            ELSE IF Len(b) < t.val THEN Err("NotComplete", b)
            ELSE p
        counted(p) ==
            IF p.st # "Ok" THEN p ELSE guarded(p, cal_total_length(b, p.val[2], prefix))
    IN  counted(parse_length(b, prefix))

Array_decode(b) ==
    LET built(r) == IF r.st # "Ok" THEN r ELSE Ok(Array(r.val), r.buf)
        advanced(h) ==
            IF h.st # "Ok" THEN h
            ELSE built(decode_frames(Skip(b, h.val[1] + CRLF_LEN), h.val[2], <<>>))
    IN  advanced(container_header(b, "*"))

\* Map::decode passes the prefix "*"
Map_decode(b) ==
    LET built(r) == IF r.st # "Ok" THEN r ELSE Ok(Map(r.val), r.buf)
        advanced(h) ==
            IF h.st # "Ok" THEN h
            ELSE built(decode_entries(Skip(b, h.val[1] + CRLF_LEN), h.val[2], <<>>))
    IN  advanced(container_header(b, "*"))

Set_decode(b) ==
    LET built(r) == IF r.st # "Ok" THEN r ELSE Ok(Set(r.val), r.buf)
        advanced(h) ==
            IF h.st # "Ok" THEN h
            ELSE built(decode_frames(Skip(b, h.val[1] + CRLF_LEN), h.val[2], <<>>))
    IN  advanced(container_header(b, "~"))

RespFrame_decode(b) ==
    LET c == peek(b)
        \* the null sentinel first, the sized form when it does not match
        array(nul) == IF nul.st \in {"Ok", "NotComplete"} THEN nul
                      ELSE Array_decode(nul.buf)
        bulk(nul) == IF nul.st \in {"Ok", "NotComplete"} THEN nul
                     ELSE BulkString_decode(nul.buf)
    IN  CASE c = "+" -> SimpleString_decode(b)
          [] c = "-" -> SimpleError_decode(b)
          [] c = "*" -> array(NullArray_decode(b))
          [] c = ":" -> i64_decode(b)
          [] c = "#" -> bool_decode(b)
          [] c = "$" -> bulk(NullBulkString_decode(b))
          [] c = "~" -> Set_decode(b)
          [] c = "%" -> Map_decode(b)
          [] c = "!" -> BulkError_decode(b)
          [] OTHER -> invalid_frame_type(b)

\* ----------------------------------------------------------------- encoder
SimpleString_encode(s) == <<"+">> \o s \o CRLF

SimpleError_encode(s) == <<"-">> \o s \o CRLF

BulkError_encode(s) == <<"!">> \o to_string(Len(s)) \o CRLF \o s \o CRLF

\* A panic unwinds through the encode calls that enclose it and the bytes
\* written so far are dropped: Abort stands in the place of the bytes, and an
\* encoding that holds it is one that was never returned.
Abort == <<"panic">>
Aborted(bs) == \E i \in 1..Len(bs) : bs[i] = "panic"

\* i64::abs: i64::MIN has no magnitude in i64; the negation panics under
\* overflow checks and wraps to i64::MIN without them
abs_overflows(n) == n = I64_MIN
i64_abs(n) == IF abs_overflows(n) THEN I64_MIN ELSE I64Value(FALSE, n.mag)

i64_encode(n) ==
    IF abs_overflows(n) /\ overflow_checks THEN Abort
    ELSE (IF ~n.neg THEN <<"+">> ELSE <<"-">>) \o i64_to_string(i64_abs(n)) \o CRLF

BulkString_encode(b) == <<"$">> \o to_string(Len(b)) \o CRLF \o b \o CRLF

NullBulkString_encode == <<"$", "-", "1">> \o CRLF

NullArray_encode == <<"*", "-", "1">> \o CRLF

Null_encode == <<"_">> \o CRLF

bool_encode(v) == <<"#", IF v THEN "t" ELSE "f">> \o CRLF

\* `self.abs() > 1e+8` and `self >= 0.0` (true of -0.0)
ExceedsFixed(v) == v.int > 100000000 \/ (v.int = 100000000 /\ v.frac # <<>>)
NonNegative(v) == ~v.neg \/ (v.int = 0 /\ v.frac = <<>>)

\* `{:+e}`: the sign, the first significant digit, '.' and the further
\* digits when there are any, 'e', and the exponent (no sign when >= 0)
lower_exp_plus(v) ==
    LET ip == to_string(v.int)
        ds == StripZeros(ip \o v.frac)
    IN  (IF v.neg THEN <<"-">> ELSE <<"+">>) \o <<Head(ds)>>
            \o (IF Len(ds) > 1 THEN <<".">> \o Tail(ds) ELSE <<>>)
            \o <<"e">> \o to_string(Len(ip) - 1)

f64_encode(v) ==
    IF ExceedsFixed(v) THEN <<",">> \o lower_exp_plus(v) \o CRLF
    ELSE <<",">> \o (IF NonNegative(v) THEN <<"+">> ELSE <<"-">>)
             \o f64_to_string(v) \o CRLF

RECURSIVE RespFrame_encode(_)

\* `for frame in self.0 { buf.extend_from_slice(&frame.encode()) }`
RECURSIVE encode_frames(_)
encode_frames(items) ==
    IF items = <<>> THEN <<>>
    ELSE RespFrame_encode(Head(items)) \o encode_frames(Tail(items))

\* `for (key, value) in self.0 { SimpleString::new(key).encode(); value.encode() }`
RECURSIVE encode_entries(_)
encode_entries(entries) ==
    IF entries = <<>> THEN <<>>
    ELSE SimpleString_encode(Head(entries)[1]) \o RespFrame_encode(Head(entries)[2])
             \o encode_entries(Tail(entries))

Array_encode(items) == <<"*">> \o to_string(Len(items)) \o CRLF \o encode_frames(items)

Map_encode(entries) == <<"%">> \o to_string(Len(entries)) \o CRLF \o encode_entries(entries)

Set_encode(items) == <<"~">> \o to_string(Len(items)) \o CRLF \o encode_frames(items)

\* enum_dispatch of RespEncode over the variants of RespFrame
RespFrame_encode(f) ==
    CASE Tag(f) = "SimpleString" -> SimpleString_encode(Val(f))
      [] Tag(f) = "Error" -> SimpleError_encode(Val(f))
      [] Tag(f) = "BulkError" -> BulkError_encode(Val(f))
      [] Tag(f) = "Integer" -> i64_encode(Val(f))
      [] Tag(f) = "BulkString" -> BulkString_encode(Val(f))
      [] Tag(f) = "NullBulkString" -> NullBulkString_encode
      [] Tag(f) = "Array" -> Array_encode(Val(f))
      [] Tag(f) = "NullArray" -> NullArray_encode
      [] Tag(f) = "Null" -> Null_encode
      [] Tag(f) = "Boolean" -> bool_encode(Val(f))
      [] Tag(f) = "Double" -> f64_encode(Val(f))
      [] Tag(f) = "Map" -> Map_encode(Val(f))
      [] Tag(f) = "Set" -> Set_encode(Val(f))

\* ------------------------------------------------------------ command layer
Upper == <<"A", "B", "C", "D", "E", "F", "G", "H", "I", "J", "K", "L", "M",
           "N", "O", "P", "Q", "R", "S", "T", "U", "V", "W", "X", "Y", "Z">>
Lower == <<"a", "b", "c", "d", "e", "f", "g", "h", "i", "j", "k", "l", "m",
           "n", "o", "p", "q", "r", "s", "t", "u", "v", "w", "x", "y", "z">>

\* <[u8]>::to_ascii_lowercase
to_ascii_lowercase(bs) ==
    [i \in 1..Len(bs) |->
        IF \E j \in 1..26 : Upper[j] = bs[i]
        THEN Lower[CHOOSE j \in 1..26 : Upper[j] = bs[i]]
        ELSE bs[i]]

\* String::from_utf8
from_utf8(bs) ==
    IF \E i \in 1..Len(bs) : bs[i] = BadByte THEN [st |-> "Utf8Error", val |-> <<>>]
    ELSE [st |-> "Ok", val |-> bs]

\* the loop of validate_command over the names from the i-th on
RECURSIVE validate_names(_, _, _)
validate_names(value, names, i) ==
    IF i > Len(names) THEN "Ok"
    ELSE IF Tag(value[i]) # "BulkString" THEN "InvalidArguments"
    ELSE IF to_ascii_lowercase(Val(value[i])) # names[i] THEN "InvalidCommand"
    ELSE validate_names(value, names, i + 1)

\* the name compared as the client wrote it
validate_command_case_sensitive(value, names, n_args) ==
    IF Len(value) # n_args + Len(names) THEN "InvalidArguments"
    ELSE IF Tag(value[1]) # "BulkString" THEN "InvalidArguments"
    ELSE IF Val(value[1]) # names[1] THEN "InvalidCommand"
    ELSE "Ok"

validate_command(value, names, n_args) ==
    IF Len(value) # n_args + Len(names) THEN "InvalidArguments"
    ELSE validate_names(value, names, 1)

\* the command name left among the arguments
extract_args_unskipped(value, start) == value

extract_args(value, start) == Skip(value, start)

\* Result<command, CommandError>: the command's fields, those it has not empty
CmdOk(key, field, value) == [st |-> "Ok", key |-> key, field |-> field, value |-> value]
CmdErr(e) == [st |-> e, key |-> <<>>, field |-> <<>>, value |-> Null]

get == <<"g", "e", "t">>
set == <<"s", "e", "t">>
hget == <<"h", "g", "e", "t">>
hset == <<"h", "s", "e", "t">>
hgetall == <<"h", "g", "e", "t", "a", "l", "l">>

\* a key or field position: a BulkString whose bytes are UTF-8
IsBulk(f) == Tag(f) = "BulkString"

\* the match on one key argument (Get, HGetAll)
keyed(args, invalid) ==
    LET text(k) == IF k.st # "Ok" THEN CmdErr(k.st) ELSE CmdOk(k.val, <<>>, Null)
    IN  IF IsBulk(args[1]) THEN text(from_utf8(Val(args[1]))) ELSE CmdErr(invalid)

Get_try_from(value) ==
    LET valid(v) == IF v # "Ok" THEN CmdErr(v) ELSE keyed(extract_args(value, 1), "InvalidArguments")
    IN  valid(validate_command(value, <<get>>, 1))

Set_try_from(value) ==
    LET text(k, args) == IF k.st # "Ok" THEN CmdErr(k.st) ELSE CmdOk(k.val, <<>>, args[2])
        matched(args) ==
            IF IsBulk(args[1]) THEN text(from_utf8(Val(args[1])), args)
            ELSE CmdErr("InvalidArguments")
        valid(v) == IF v # "Ok" THEN CmdErr(v) ELSE matched(extract_args(value, 1))
    IN  valid(validate_command(value, <<set>>, 2))

HGet_try_from(value) ==
    LET text(k, f) ==
            IF k.st # "Ok" THEN CmdErr(k.st)
            ELSE IF f.st # "Ok" THEN CmdErr(f.st)
            ELSE CmdOk(k.val, f.val, Null)
        matched(args) ==
            IF IsBulk(args[1]) /\ IsBulk(args[2])
            THEN text(from_utf8(Val(args[1])), from_utf8(Val(args[2])))
            ELSE CmdErr("InvalidArguments")
        valid(v) == IF v # "Ok" THEN CmdErr(v) ELSE matched(extract_args(value, 1))
    IN  valid(validate_command(value, <<hget>>, 2))

HGetAll_try_from(value) ==
    LET valid(v) == IF v # "Ok" THEN CmdErr(v) ELSE keyed(extract_args(value, 1), "InvalidArguments")
    IN  valid(validate_command(value, <<hgetall>>, 1))

HSet_try_from(value) ==
    LET text(k, f, args) ==
            IF k.st # "Ok" THEN CmdErr(k.st)
            ELSE IF f.st # "Ok" THEN CmdErr(f.st)
            ELSE CmdOk(k.val, f.val, args[3])
        matched(args) ==
            IF IsBulk(args[1]) /\ IsBulk(args[2])
            THEN text(from_utf8(Val(args[1])), from_utf8(Val(args[2])), args)
            ELSE CmdErr("InvalidArguments")
        valid(v) == IF v # "Ok" THEN CmdErr(v) ELSE matched(extract_args(value, 1))
    IN  valid(validate_command(value, <<hset>>, 3))

\* the commands, and what each passes to validate_command
Commands == {"Get", "Set", "HGet", "HSet", "HGetAll"}

names_of(c) ==
    CASE c = "Get" -> <<get>> [] c = "Set" -> <<set>> [] c = "HGet" -> <<hget>>
      [] c = "HSet" -> <<hset>> [] c = "HGetAll" -> <<hgetall>>

n_args_of(c) ==
    CASE c = "Get" -> 1 [] c = "Set" -> 2 [] c = "HGet" -> 2
      [] c = "HSet" -> 3 [] c = "HGetAll" -> 1

try_from(c, value) ==
    CASE c = "Get" -> Get_try_from(value)
      [] c = "Set" -> Set_try_from(value)
      [] c = "HGet" -> HGet_try_from(value)
      [] c = "HSet" -> HSet_try_from(value)
      [] c = "HGetAll" -> HGetAll_try_from(value)

\* ------------------------------------------------------------------ inputs
OK == <<"O", "K">>
ab == <<"a", "b">>

\* one frame of each variant without children, and the edge payloads
Leaves ==
    { SimpleString(OK), SimpleString(<<>>), SimpleString(<<"4", "2">>),
      SimpleError(<<"e">>), SimpleError(<<"7">>), BulkError(ab),
      Integer(I64(42)), Integer(I64(0)), Integer(I64(0 - 7)),
      Integer(I64_MAX), Integer(I64_MIN),
      BulkString(ab), BulkString(<<>>), BulkString(CRLF),
      NullBulkString, NullArray, Null,
      Boolean(TRUE), Boolean(FALSE),
      Double(Dbl(FALSE, 3, <<"5">>)), Double(Dbl(TRUE, 1, <<"5">>)),
      Double(Dbl(FALSE, 250000000, <<>>)),
      Double(Dbl(FALSE, 0, <<>>)), Double(Dbl(FALSE, 100000000, <<>>)) }

\* the children of the containers
Items == { SimpleString(OK), BulkString(ab), Boolean(TRUE) }
Keys == { <<"a">>, <<"b">> }

RECURSIVE SeqsUpTo(_, _)
SeqsUpTo(S, n) ==
    IF n = 0 THEN {<<>>}
    ELSE LET shorter == SeqsUpTo(S, n - 1)
         IN  shorter \cup {Append(q, x) : q \in {r \in shorter : Len(r) = n - 1}, x \in S}

\* the maps over Keys with at most MaxItems entries, in key order
RECURSIVE EntriesOf(_)
EntriesOf(kvs) ==
    IF kvs = <<>> THEN <<>>
    ELSE BTreeInsert(EntriesOf(Tail(kvs)), Head(kvs)[1], Head(kvs)[2])

Flat ==
    LET seqs == SeqsUpTo(Items, MaxItems)
    IN  {Array(q) : q \in seqs} \cup {Set(q) : q \in seqs}
            \cup {Map(EntriesOf(q)) : q \in SeqsUpTo(Keys \X {SimpleString(OK), BulkString(ab)}, MaxItems)}

\* containers of containers
Nested ==
    LET inner == {Array(<<>>), Array(<<Boolean(TRUE)>>), Set(<<BulkString(ab)>>)}
        seqs == SeqsUpTo(inner, MaxItems)
    IN  {Array(q) : q \in seqs} \cup {Set(q) : q \in seqs}

\* the ends of the i64 range and a third level of nesting inside containers
Deep ==
    { Array(<<Integer(I64_MIN)>>),
      Map(<<<<<<"a">>, Integer(I64_MAX)>>>>),
      Array(<<Set(<<Array(<<Null>>)>>)>>) }

\* the arrays a client sends as commands: the five commands, a name in
\* upper and mixed case, a misspelt name, a name or a key that is not a
\* BulkString, a missing argument, a key that is not UTF-8
CommandArrays ==
    LET k == BulkString(<<"k">>)
        f == BulkString(<<"f">>)
    IN  { Array(<<BulkString(get), k>>),
          Array(<<BulkString(<<"G", "E", "T">>), k>>),
          Array(<<BulkString(<<"g", "e", "x">>), k>>),
          Array(<<SimpleString(get), k>>),
          Array(<<BulkString(get), SimpleString(<<"k">>)>>),
          Array(<<BulkString(get), BulkString(<<BadByte>>)>>),
          Array(<<BulkString(get)>>),
          Array(<<BulkString(set), k, Boolean(TRUE)>>),
          Array(<<BulkString(<<"h", "G", "e", "t">>), k, f>>),
          Array(<<BulkString(hget), k, Boolean(TRUE)>>),
          Array(<<BulkString(hset), k, f, SimpleString(OK)>>),
          Array(<<BulkString(hset), Boolean(TRUE), f, k>>),
          Array(<<BulkString(hgetall), k>>) }

\* a container whose count takes two digits
Wide == { Array([i \in 1..10 |-> Boolean(TRUE)]) }

Frames == Leaves \cup Flat \cup Nested \cup Deep \cup CommandArrays \cup Wide

\* the frames of a pipeline of several frames
Pipelined == { SimpleString(OK), BulkString(ab), BulkError(ab), NullBulkString,
               Array(<<Boolean(TRUE)>>) }

\* byte strings that no encoder of this repository writes: the canonical
\* forms of Integer and Double, malformed frames, truncated containers
RawInputs ==
    { <<":", "+", "4", "2">> \o CRLF,
      <<":", "-", "7">> \o CRLF,
      <<":", "a">> \o CRLF,
      <<",", "+", "3", ".", "5">> \o CRLF,
      <<",", "x">> \o CRLF,
      <<"?", "a">> \o CRLF,
      <<"$", "x">> \o CRLF,
      <<"$", "-", "2">> \o CRLF,
      <<"*", "x">> \o CRLF,
      <<"#", "x">> \o CRLF,
      <<"_", "x">> \o CRLF,
      <<"+", BadByte>> \o CRLF,
      <<"*", "2">> \o CRLF,
      <<"~", "2">> \o CRLF,
      <<"%", "1">> \o CRLF,
      <<"*", "1", "0", "0">> \o CRLF,
      <<"*", "1">> \o CRLF \o <<"$", "3">> \o CRLF \o ab,
      <<"*", "1">> \o CRLF \o <<":", "a">> \o CRLF,
      <<"*", "1">> \o CRLF \o <<"+", "k">> \o CRLF \o <<"+", "v">> \o CRLF,
      <<"~", "1">> \o CRLF \o <<"?">> \o CRLF,
      <<"$", "1">> \o CRLF \o <<"a", "x", "y">>,
      <<":">> \o I64MinMag \o CRLF,
      <<"$">> \o UsizeMax \o CRLF \o <<"a">> }

\* ------------------------------------------------------------ entry points
Entries == { "SimpleString", "SimpleError", "BulkError", "Null", "NullArray",
             "NullBulkString", "i64", "bool", "BulkString", "Array", "f64",
             "Map", "Set" }

decode_as(e, b) ==
    CASE e = "RespFrame" -> RespFrame_decode(b)
      [] e = "SimpleString" -> SimpleString_decode(b)
      [] e = "SimpleError" -> SimpleError_decode(b)
      [] e = "BulkError" -> BulkError_decode(b)
      [] e = "Null" -> Null_decode(b)
      [] e = "NullArray" -> NullArray_decode(b)
      [] e = "NullBulkString" -> NullBulkString_decode(b)
      [] e = "i64" -> i64_decode(b)
      [] e = "bool" -> bool_decode(b)
      [] e = "BulkString" -> BulkString_decode(b)
      [] e = "Array" -> Array_decode(b)
      [] e = "f64" -> f64_decode(b)
      [] e = "Map" -> Map_decode(b)
      [] e = "Set" -> Set_decode(b)

\* ------------------------------------------------------------ the connection
NoEncode == [st |-> "none", frame |-> Null, bytes |-> <<>>]

NoCmd == [target |-> "none", array |-> <<>>, valid |-> "none", res |-> CmdErr("none")]

NoCall == [entry |-> "none", before |-> <<>>, st |-> "none", val |-> Null]

\* a panic aborts the process; after a malformed-frame error the caller
\* drops the connection, and on NotComplete it waits for bytes and retries
Alive == call.st \in {"none", "Ok", "NotComplete"}

\* nothing has been read from the socket yet
Unread == buf = <<>> /\ recv = <<>> /\ call = NoCall

Init ==
    /\ buf = <<>>
    /\ wire = <<>>
    /\ sent = <<>>
    /\ raw = FALSE
    /\ recv = <<>>
    /\ direct = FALSE
    /\ call = NoCall
    /\ enc = NoEncode
    /\ decoder = "none"
    /\ waited = FALSE
    /\ cmd = NoCmd
    /\ overflow_checks \in BOOLEAN

\* frame.encode() returns bs, or aborts
Encoded(f, bs) ==
    IF Aborted(bs)
    THEN /\ enc' = [st |-> "Panic", frame |-> f, bytes |-> <<>>]
         /\ UNCHANGED <<wire, sent>>
    ELSE /\ enc' = [st |-> "Ok", frame |-> f, bytes |-> bs]
         /\ wire' = wire \o bs
         /\ sent' = Append(sent, f)

\* the peer encodes a frame and writes it; a panic ends the peer
Send(f) ==
    /\ Alive
    /\ enc.st # "Panic"
    /\ ~raw
    /\ Len(sent) < MaxFrames
    /\ IF sent = <<>> THEN TRUE ELSE sent[1] \in Pipelined /\ f \in Pipelined
    /\ Unread
    /\ Encoded(f, RespFrame_encode(f))
    /\ UNCHANGED <<buf, raw, recv, direct, call, decoder, waited, cmd, overflow_checks>>

\* the peer writes bytes of its own
SendRaw(bs) ==
    /\ Alive
    /\ ~raw
    /\ sent = <<>>
    /\ enc = NoEncode
    /\ Unread
    /\ wire' = bs
    /\ raw' = TRUE
    /\ UNCHANGED <<buf, sent, recv, direct, call, enc, decoder, waited, cmd, overflow_checks>>

\* a socket read delivers the next k bytes: buf.extend_from_slice
Read(k) ==
    /\ Alive
    /\ k \in 1..Len(wire)
    /\ buf' = buf \o SubSeq(wire, 1, k)
    /\ wire' = Skip(wire, k)
    /\ call' = NoCall
    /\ UNCHANGED <<sent, raw, recv, direct, enc, decoder, waited, cmd, overflow_checks>>

\* the call of entry point e on buf returns r; the caller calls the same
\* decode function again on the same buffer, as the tests do
Returned(e, r) ==
    /\ decoder \in {"none", e}
    /\ decoder' = e
    /\ buf' = r.buf
    /\ call' = [entry |-> e, before |-> buf, st |-> r.st, val |-> r.val]
    /\ recv' = IF r.st = "Ok" THEN Append(recv, r.val) ELSE recv
    /\ waited' = (waited \/ r.st = "NotComplete")

\* RespFrame::decode(&mut buf)
Decode ==
    /\ Alive
    /\ Returned("RespFrame", RespFrame_decode(buf))
    /\ UNCHANGED <<wire, sent, raw, direct, enc, cmd, overflow_checks>>

\* <variant>::decode(&mut buf), as the tests call it
DecodeVariant(e) ==
    /\ Alive
    /\ Returned(e, decode_as(e, buf))
    /\ direct' = TRUE
    /\ UNCHANGED <<wire, sent, raw, enc, cmd, overflow_checks>>

\* <command>::try_from(array) on the Array the decoder has just returned
TryFrom(c) ==
    /\ call.st = "Ok"
    /\ Tag(call.val) = "Array"
    /\ cmd = NoCmd
    /\ cmd' = [target |-> c, array |-> Val(call.val),
               valid |-> validate_command(Val(call.val), names_of(c), n_args_of(c)),
               res |-> try_from(c, Val(call.val))]
    /\ UNCHANGED <<buf, wire, sent, raw, recv, direct, call, enc, decoder, waited,
                   overflow_checks>>

Next ==
    \/ \E f \in Frames : Send(f)
    \/ \E bs \in RawInputs : SendRaw(bs)
    \/ \E k \in 1..Len(wire) : Read(k)
    \/ Decode
    \/ \E e \in Entries : DecodeVariant(e)
    \/ \E c \in Commands : TryFrom(c)

Spec == Init /\ [][Next]_vars

TypeOK ==
    /\ call.st \in {"none", "Ok", "NotComplete", "InvalidFrame", "InvalidFrameType",
                    "ParseIntError", "ParseFloatError", "Panic"}
    /\ raw \in BOOLEAN
    /\ direct \in BOOLEAN
    /\ overflow_checks \in BOOLEAN
    /\ waited \in BOOLEAN
    /\ enc.st \in {"none", "Ok", "Panic"}
    /\ decoder \in Entries \cup {"none", "RespFrame"}
    /\ cmd.target \in Commands \cup {"none"}
    /\ cmd.valid \in {"none", "Ok", "InvalidArguments", "InvalidCommand"}
    /\ cmd.res.st \in {"none", "Ok", "InvalidArguments", "InvalidCommand", "Utf8Error"}

\* ------------------------------------------------------------- properties
IsPrefix(p, b) == Len(p) <= Len(b) /\ SubSeq(b, 1, Len(p)) = p
IsStrictPrefix(p, b) == Len(p) < Len(b) /\ IsPrefix(p, b)

Malformed == {"InvalidFrame", "InvalidFrameType", "ParseIntError", "ParseFloatError"}

\* the type-prefix byte of each variant
PrefixBytes == {"+", "-", "!", ":", "$", "*", "#", ",", "%", "~", "_"}

KindOf(c) ==
    CASE c = "+" -> {"SimpleString"}
      [] c = "-" -> {"Error"}
      [] c = "!" -> {"BulkError"}
      [] c = ":" -> {"Integer"}
      [] c = "$" -> {"BulkString", "NullBulkString"}
      [] c = "*" -> {"Array", "NullArray"}
      [] c = "#" -> {"Boolean"}
      [] c = "," -> {"Double"}
      [] c = "%" -> {"Map"}
      [] c = "~" -> {"Set"}
      [] c = "_" -> {"Null"}
      [] OTHER -> {}

\* the frames sent from the k-th on, as the encoder wrote them
Rest(k) == encode_frames(SubSeq(sent, k, Len(sent)))

\* C1: RespFrame::decode on a buffer that holds exactly encode(f) returns f
\* and leaves the buffer empty.
C1_RoundTrip ==
    (call.entry = "RespFrame" /\ ~raw /\ Len(sent) = 1
        /\ call.before = RespFrame_encode(sent[1]))
    => (call.st = "Ok" /\ call.val = sent[1] /\ buf = <<>>)

\* C2: a decode call, of any entry point, that returns NotComplete leaves
\* the buffer as it was before the call.
C2_AtomicNonConsumption ==
    call.st = "NotComplete" => buf = call.before

\* C3: with one frame on the wire, RespFrame::decode on a strict non-empty
\* prefix of its encoding returns NotComplete, and the call made once the
\* remaining bytes are in the buffer returns the frame and empties the buffer.
C3_IncrementalCompletion ==
    (call.entry = "RespFrame" /\ ~raw /\ ~direct /\ Len(sent) = 1 /\ call.before # <<>>)
    => IF wire # <<>> THEN call.st = "NotComplete"
       ELSE call.st = "Ok" /\ call.val = sent[1] /\ buf = <<>>

HeaderLen(f) == 1 + Len(to_string(Len(Val(f)))) + CRLF_LEN

\* C4: on a buffer that holds the header of an Array, Set or Map and a strict
\* prefix of what follows it, decode returns NotComplete and consumes nothing.
C4_ContainerAtomicity ==
    (~raw /\ Len(sent) = 1 /\ Tag(sent[1]) \in {"Array", "Set", "Map"}
        /\ call.entry \in {"RespFrame", Tag(sent[1])}
        /\ IsStrictPrefix(call.before, RespFrame_encode(sent[1]))
        /\ Len(call.before) >= HeaderLen(sent[1]))
    => (call.st = "NotComplete" /\ buf = call.before)

\* C5: no decode call aborts: every call returns a frame, NotComplete or a
\* malformed-frame error.
C5_DecodeTotal ==
    call.st # "Panic"

\* C6: when the buffer holds the encodings of the frames k..n, one after the
\* other, RespFrame::decode returns the k-th and removes exactly its bytes.
C6_FrameBoundaryOrdering ==
    \A k \in 1..Len(sent) :
        (call.entry = "RespFrame" /\ ~raw /\ call.before = Rest(k))
        => (call.st = "Ok" /\ call.val = sent[k] /\ buf = Rest(k + 1))

\* C7: a decode call that returns an error other than NotComplete leaves the
\* buffer as it was before the call.
C7_NoMutationOnMalformed ==
    call.st \in Malformed => buf = call.before

\* a complete frame in its wire form at the front of the buffer: one the
\* encoder wrote under its variant's prefix byte, or a canonical numeral
CompleteFrameBefore ==
    \/ /\ ~raw
       /\ Len(sent) = 1
       /\ call.before = RespFrame_encode(sent[1])
       /\ Tag(sent[1]) \in KindOf(Head(call.before))
       /\ Tag(sent[1]) # "Double"
    \/ /\ raw
       /\ call.before \in { <<":", "+", "4", "2">> \o CRLF, <<":", "-", "7">> \o CRLF,
                            <<",", "+", "3", ".", "5">> \o CRLF }

\* C8: RespFrame::decode returns a complete frame at the front of the buffer
\* as a frame of the variant of its first byte.
C8_DispatchByFirstByte ==
    (call.entry = "RespFrame" /\ CompleteFrameBefore)
    => (call.st = "Ok" /\ Tag(call.val) \in KindOf(Head(call.before)))

\* C9: RespFrame::decode on an empty buffer, or on one whose first byte is
\* not a type-prefix byte, returns InvalidFrame and leaves the buffer as it was.
C9_UnknownPrefixInvalid ==
    (call.entry = "RespFrame" /\ (call.before = <<>> \/ Head(call.before) \notin PrefixBytes))
    => (call.st = "InvalidFrame" /\ buf = call.before)

C9_Witness ==
    /\ call.entry = "RespFrame"
    /\ call.before # <<>>
    /\ Head(call.before) \notin PrefixBytes
    /\ call.st = "InvalidFrame"

Sentinel(c) == <<c, "-", "1">> \o CRLF

\* C10: on a buffer that starts with `$` or `*`, RespFrame::decode returns
\* the null variant and consumes 5 bytes when the buffer starts with the
\* sentinel, returns NotComplete when the buffer is shorter than the
\* sentinel, and otherwise returns what the sized decoder returns on the
\* buffer as it was.
C10_SentinelDisambiguation ==
    (call.entry = "RespFrame" /\ call.before # <<>> /\ Head(call.before) \in {"$", "*"})
    => LET c == Head(call.before)
           same(sized) == call.st = sized.st /\ call.val = sized.val /\ buf = sized.buf
       IN  IF StartsWith(call.before, Sentinel(c))
           THEN /\ call.st = "Ok"
                /\ call.val = (IF c = "$" THEN NullBulkString ELSE NullArray)
                /\ buf = Skip(call.before, 5)
           ELSE IF Len(call.before) < 5
           THEN call.st = "NotComplete" /\ buf = call.before
           ELSE IF c = "$" THEN same(BulkString_decode(call.before))
           ELSE same(Array_decode(call.before))

C10_Witness ==
    /\ call.entry = "RespFrame"
    /\ Len(call.before) >= 5
    /\ Head(call.before) = "$"
    /\ ~StartsWith(call.before, Sentinel("$"))
    /\ call.st = "Ok"
    /\ Tag(call.val) = "BulkString"

\* the offset of the first byte from offset i on that is not a digit
RECURSIVE DigitsEnd(_, _)
DigitsEnd(b, i) ==
    IF i < Len(b) /\ IsDigit(b[i + 1]) THEN DigitsEnd(b, i + 1) ELSE i

\* b starts with `$`, one or more digits and CRLF
HasLengthLine(b) ==
    LET line(e) == e > 1 /\ Len(b) >= e + CRLF_LEN /\ Slice(b, e, e + CRLF_LEN) = CRLF
    IN  b # <<>> /\ Head(b) = "$" /\ line(DigitsEnd(b, 1))

\* the number a numeral denotes when a buffer can hold that many bytes
Holdable(num) == Len(StripLeadingZeros(num)) <= 9

\* C11: on a buffer `$<len>\r\n` followed by any bytes, BulkString::decode
\* returns NotComplete and leaves the buffer unchanged unless len + 2 bytes
\* follow the length line; when they do it returns the len bytes after the
\* length line as the payload and removes the length line and len + 2 bytes.
C11_BulkStringLengthDriven ==
    (call.entry = "BulkString" /\ HasLengthLine(call.before))
    => LET whole(len, rest) ==
               /\ call.st = "Ok"
               /\ call.val = BulkString(SubSeq(rest, 1, len))
               /\ buf = Skip(rest, len + CRLF_LEN)
           sized(num, rest) ==
               IF Holdable(num) /\ Len(rest) >= DigitsValue(num, 0) + CRLF_LEN
               THEN whole(DigitsValue(num, 0), rest)
               ELSE call.st = "NotComplete" /\ buf = call.before
           line(e) == sized(Slice(call.before, 1, e), Skip(call.before, e + CRLF_LEN))
       IN  line(DigitsEnd(call.before, 1))

\* the entry point of the variant of a line-oriented frame
LineDecoder(f) == IF Tag(f) = "Error" THEN "SimpleError" ELSE Tag(f)

\* C12: while bytes of a SimpleString or SimpleError frame are still to
\* come, whatever the position the frame is split at, the decode call returns
\* NotComplete and leaves the buffer unchanged; the call made once the
\* remaining bytes are appended returns the frame with its text.
C12_LineFrameSplit ==
    (~raw /\ Len(sent) = 1 /\ Tag(sent[1]) \in {"SimpleString", "Error"}
        /\ call.entry \in {"RespFrame", LineDecoder(sent[1])} /\ call.before # <<>>)
    => IF wire # <<>> THEN call.st = "NotComplete" /\ buf = call.before
       ELSE call.st = "Ok" /\ call.val = sent[1] /\ buf = <<>>

\* the frame arrived in parts, a call on a part of it returned NotComplete
\* and the call on the whole returned the frame
C12_Witness ==
    /\ ~raw /\ Len(sent) = 1 /\ sent[1] = SimpleString(OK)
    /\ call.entry = "SimpleString"
    /\ waited
    /\ wire = <<>>
    /\ call.st = "Ok" /\ call.val = SimpleString(OK) /\ buf = <<>>

\* C13: on a buffer that holds `%<n>\r\n` and n pairs of a SimpleString key
\* frame and a value frame, Map::decode, called directly or by
\* RespFrame::decode, returns the Map of those entries in key order and
\* leaves the buffer empty.
C13_MapDecode ==
    (~raw /\ Len(sent) = 1 /\ Tag(sent[1]) = "Map"
        /\ call.entry \in {"RespFrame", "Map"}
        /\ call.before = Map_encode(Val(sent[1])))
    => (call.st = "Ok" /\ call.val = sent[1] /\ buf = <<>>)

\* `!<byte-length>\r\n<text>\r\n`
BulkErrorWire(text) == <<"!">> \o to_string(Len(text)) \o CRLF \o text \o CRLF

\* C14: on a buffer that holds `!<byte-length>\r\n<text>\r\n`,
\* BulkError::decode, called directly or by RespFrame::decode, returns
\* BulkError(text) and removes the length line and the payload line.
C14_BulkErrorLengthPrefixed ==
    (~raw /\ Len(sent) = 1 /\ Tag(sent[1]) = "BulkError"
        /\ call.entry \in {"RespFrame", "BulkError"}
        /\ call.before = BulkErrorWire(Val(sent[1])))
    => (call.st = "Ok" /\ call.val = BulkError(Val(sent[1])) /\ buf = <<>>)

\* C15: on a buffer that holds `*N\r\n` or `~N\r\n` and N complete
\* element frames, for any N from 0 on, Array::decode and Set::decode, called
\* directly or by RespFrame::decode, return the container of those N frames
\* in arrival order, repeated elements kept, and leave the buffer empty.
C15_SequenceDecode ==
    (~raw /\ Len(sent) = 1 /\ Tag(sent[1]) \in {"Array", "Set"}
        /\ call.entry \in {"RespFrame", Tag(sent[1])}
        /\ call.before = <<IF Tag(sent[1]) = "Array" THEN "*" ELSE "~">>
                             \o to_string(Len(Val(sent[1]))) \o CRLF
                             \o encode_frames(Val(sent[1])))
    => (call.st = "Ok" /\ call.val = sent[1] /\ buf = <<>>)

\* C16: bool::decode returns true on a buffer that starts with `#t\r\n`,
\* false on one that starts with `#f\r\n`, a malformed-frame error and the
\* buffer unchanged on any other buffer of 4 bytes or more, and NotComplete
\* on a shorter one; Null::decode succeeds on the buffers that start with
\* `_\r\n` and on no other.
C16_FixedFormExact ==
    /\ call.entry = "bool"
        => IF Len(call.before) < 4 THEN call.st = "NotComplete"
           ELSE IF StartsWith(call.before, <<"#", "t">> \o CRLF)
           THEN call.st = "Ok" /\ call.val = Boolean(TRUE)
           ELSE IF StartsWith(call.before, <<"#", "f">> \o CRLF)
           THEN call.st = "Ok" /\ call.val = Boolean(FALSE)
           ELSE call.st \in Malformed /\ buf = call.before
    /\ call.entry = "Null"
        => (call.st = "Ok" <=> StartsWith(call.before, <<"_">> \o CRLF))

\* bool::decode has been called on `#x\r\n`
C16_Witness ==
    /\ call.entry = "bool"
    /\ call.before = <<"#", "x">> \o CRLF
    /\ call.st = "InvalidFrameType"
    /\ buf = call.before

\* b holds one complete line and nothing else
OneLine(b) ==
    /\ Len(b) >= 3
    /\ Slice(b, Len(b) - CRLF_LEN, Len(b)) = CRLF
    /\ \A i \in 2..(Len(b) - CRLF_LEN) : b[i] # CR

\* the per-variant decode function of a type-prefix byte
EntryOf(c) ==
    CASE c = "+" -> "SimpleString"
      [] c = "-" -> "SimpleError"
      [] c = "!" -> "BulkError"
      [] c = ":" -> "i64"
      [] c = "," -> "f64"
      [] c = "$" -> "BulkString"
      [] c = "*" -> "Array"
      [] c = "~" -> "Set"
      [] c = "%" -> "Map"
      [] OTHER -> "none"

\* the payload p of a line of prefix byte c is not what the variant holds: an
\* Integer or Double that is no numeral, a length or count that is neither a
\* number nor the null sentinel, a text that is not UTF-8
ContentError(c, p) ==
    \/ c = ":" /\ parse_i64(p).st # "Ok"
    \/ c = "," /\ parse_f64(p).st # "Ok"
    \/ c \in {"$", "*", "~", "%"} /\ parse_usize(p).st # "Ok"
           /\ ~(c \in {"$", "*"} /\ p = <<"-", "1">>)
    \/ c \in {"+", "-", "!"} /\ \E i \in 1..Len(p) : p[i] = BadByte

\* C17: on a buffer that holds a complete line whose payload has a content
\* error, the decode function of the line's prefix byte, called directly or
\* by RespFrame::decode, returns a malformed-frame error: no frame, and not
\* NotComplete.
C17_ContentErrors ==
    (OneLine(call.before)
        /\ call.entry \in {"RespFrame", EntryOf(Head(call.before))}
        /\ ContentError(Head(call.before), Slice(call.before, 1, Len(call.before) - CRLF_LEN)))
    => call.st \in Malformed

\* C18: encode returns a byte sequence for every frame, Integer(i64::MIN),
\* Integer(i64::MAX) and nested containers included: no encode call aborts.
C18_EncodeTotal ==
    enc.st # "Panic"

\* the decimal digits of the absolute value of an i64
Magnitude(n) == n.mag

\* C19: encode(Integer(n)) is one sign character, `+` when n >= 0 and `-`
\* when n < 0, the decimal digits of the absolute value of n, and CRLF.
C19_IntegerEncoding ==
    (enc.st # "none" /\ Tag(enc.frame) = "Integer")
    => /\ enc.st = "Ok"
       /\ enc.bytes = <<IF Val(enc.frame).neg THEN "-" ELSE "+">>
                          \o Magnitude(Val(enc.frame)) \o CRLF

RECURSIVE Concat(_)
Concat(parts) == IF parts = <<>> THEN <<>> ELSE Head(parts) \o Concat(Tail(parts))

\* the encoding of each child, in the order the container holds them; a Map
\* key is encoded as a SimpleString in front of its value
ItemParts(items) == [i \in 1..Len(items) |-> RespFrame_encode(items[i])]
EntryParts(entries) ==
    [i \in 1..Len(entries) |->
        <<"+">> \o entries[i][1] \o CRLF \o RespFrame_encode(entries[i][2])]

Ascending(entries) ==
    \A i \in 1..(Len(entries) - 1) : KeyLess(entries[i][1], entries[i + 1][1])

ContainerPrefix(f) ==
    CASE Tag(f) = "Array" -> "*" [] Tag(f) = "Set" -> "~" [] Tag(f) = "Map" -> "%"

\* C20: encode of an Array, Set or Map returns the prefix byte, the number
\* of items or entries held, CRLF, and the encoding of every child once, in
\* sequence order for Array and Set and in ascending key order for Map, each
\* Map key encoded as a SimpleString in front of its value.
C20_ContainerLayout ==
    (enc.st # "none" /\ Tag(enc.frame) \in {"Array", "Set", "Map"})
    => /\ enc.st = "Ok"
       /\ enc.bytes = <<ContainerPrefix(enc.frame)>> \o to_string(Len(Val(enc.frame)))
                          \o CRLF
                          \o Concat(IF Tag(enc.frame) = "Map"
                                    THEN EntryParts(Val(enc.frame))
                                    ELSE ItemParts(Val(enc.frame)))
       /\ Tag(enc.frame) = "Map" => Ascending(Val(enc.frame))

\* a double of absolute value above 1e8
Above1e8(v) == v.int > 100000000 \/ (v.int = 100000000 /\ v.frac # <<>>)

\* the fixed notation of the magnitude of a double
FixedMagnitude(v) ==
    to_string(v.int) \o (IF v.frac = <<>> THEN <<>> ELSE <<".">> \o v.frac)

\* C21: encode(Double(v)) is `,`, one sign character (`+` for v >= 0, `-`
\* for v < 0), the fixed notation of the magnitude of v and CRLF when the
\* absolute value of v is at most 1e8, and a scientific notation whose
\* exponent carries a sign when it is above 1e8.
C21_DoubleEncoding ==
    (enc.st # "none" /\ Tag(enc.frame) = "Double")
    => /\ enc.st = "Ok"
       /\ IF Above1e8(Val(enc.frame))
          THEN \E i \in 1..(Len(enc.bytes) - 1) :
                   enc.bytes[i] = "e" /\ enc.bytes[i + 1] \in {"+", "-"}
          ELSE enc.bytes = <<",", IF Val(enc.frame).neg THEN "-" ELSE "+">>
                               \o FixedMagnitude(Val(enc.frame)) \o CRLF

\* two byte strings that differ at most in the case of ASCII letters
SameIgnoringCase(a, b) ==
    /\ Len(a) = Len(b)
    /\ \A i \in 1..Len(a) :
           a[i] = b[i] \/ \E j \in 1..26 : {a[i], b[i]} = {Upper[j], Lower[j]}

\* the first of the leading elements of the array that is not the expected
\* name, 0 when each of them is
FirstMismatch(array, names) ==
    LET bad == {i \in 1..Len(names) :
                   ~(Tag(array[i]) = "BulkString" /\ SameIgnoringCase(Val(array[i]), names[i]))}
    IN  IF bad = {} THEN 0 ELSE CHOOSE i \in bad : \A j \in bad : i <= j

\* C22: validate_command returns Ok exactly when the array has
\* names.len() + n_args elements and each of its first names.len() elements
\* is a BulkString equal to the expected name ignoring ASCII case; a wrong
\* element count or a name element that is not a BulkString yields
\* InvalidArguments, a BulkString with a different name yields
\* InvalidCommand, and the array is left as the decoder returned it.
C22_ValidateCommand ==
    cmd # NoCmd =>
        LET names == names_of(cmd.target)
            counted == Len(cmd.array) = Len(names) + n_args_of(cmd.target)
            settled(m) ==
                /\ (cmd.valid = "Ok") = (m = 0)
                /\ (m # 0 /\ Tag(cmd.array[m]) # "BulkString") => cmd.valid = "InvalidArguments"
                /\ (m # 0 /\ Tag(cmd.array[m]) = "BulkString") => cmd.valid = "InvalidCommand"
        IN  /\ \E i \in 1..Len(recv) : recv[i] = Array(cmd.array)
            /\ IF counted THEN settled(FirstMismatch(cmd.array, names))
               ELSE cmd.valid = "InvalidArguments"

\* a name in upper case has passed validation, and each error has been returned
C22_Witness ==
    /\ cmd.valid = "Ok"
    /\ cmd.target = "Get"
    /\ Val(cmd.array[1]) = <<"G", "E", "T">>

\* the number of leading arguments that are a key or a field
KeyPositions(c) == IF c \in {"HGet", "HSet"} THEN 2 ELSE 1

\* the command carries the last argument as its value
HasValue(c) == c \in {"Set", "HSet"}

\* the p-th argument after the command name
Arg(p) == cmd.array[1 + p]

\* the key and field arguments are BulkStrings / are UTF-8 text
KeysAreBulk == \A p \in 1..KeyPositions(cmd.target) : Tag(Arg(p)) = "BulkString"
KeysAreText == \A p \in 1..KeyPositions(cmd.target) : \A i \in 1..Len(Val(Arg(p))) : Val(Arg(p))[i] # BadByte

\* the command of the conversion: key and field in positional order, the
\* value the last argument frame
Extracted ==
    /\ cmd.res.st = "Ok"
    /\ cmd.res.key = Val(Arg(1))
    /\ cmd.res.field = (IF KeyPositions(cmd.target) = 2 THEN Val(Arg(2)) ELSE <<>>)
    /\ cmd.res.value = (IF HasValue(cmd.target) THEN cmd.array[Len(cmd.array)] ELSE Null)

\* C23: for every decoded Array that passes validation for GET, SET, HGET,
\* HSET or HGETALL and whose key and field arguments are BulkStrings, the
\* conversion yields the command whose key (and field) are the text of those
\* arguments in positional order after the command name, with the last
\* argument frame unchanged as the value of SET and HSET; an argument of
\* another variant in a key or field position yields InvalidArguments.
C23_CommandExtraction ==
    (cmd # NoCmd /\ cmd.valid = "Ok")
    => IF KeysAreBulk THEN Extracted ELSE cmd.res.st = "InvalidArguments"

\* C23 as the code has it: the command is built when the bytes of the key and
\* field arguments are UTF-8; when they are not, String::from_utf8 fails and
\* the conversion returns that error and no command.
C23_CommandExtractionText ==
    (cmd # NoCmd /\ cmd.valid = "Ok")
    => IF ~KeysAreBulk THEN cmd.res.st = "InvalidArguments"
       ELSE IF KeysAreText THEN Extracted
       ELSE cmd.res.st = "Utf8Error"

\* HSET key field value has been converted
C23_Witness ==
    /\ cmd.target = "HSet"
    /\ cmd.res = CmdOk(<<"k">>, <<"f">>, SimpleString(OK))

\* the prefix byte of the wire form a container decode function is for
WirePrefix(e) == CASE e = "Array" -> "*" [] e = "Set" -> "~" [] e = "Map" -> "%"

\* b starts with the prefix p, one or more digits and CRLF: a count line
HasCountLine(b, p) ==
    LET line(e) == e > 1 /\ Len(b) >= e + CRLF_LEN /\ Slice(b, e, e + CRLF_LEN) = CRLF
    IN  b # <<>> /\ Head(b) = p /\ line(DigitsEnd(b, 1))

\* the number a numeral denotes
RECURSIVE NumeralValue(_)
NumeralValue(num) ==
    IF num = <<>> THEN 0
    ELSE 10 * NumeralValue(SubSeq(num, 1, Len(num) - 1)) + DigitVal(num[Len(num)])

\* the declared count and the length of the count line of b
CountOf(b) == NumeralValue(Slice(b, 1, DigitsEnd(b, 1)))
CountLineLen(b) == DigitsEnd(b, 1) + CRLF_LEN

\* the number of CRLF located at offset `from` of b or after it
CRLFsFrom(b, from) ==
    Cardinality({i \in (from + 1)..(Len(b) - 1) : b[i] = CR /\ b[i + 1] = LF})

\* the terminators the pre-scan of a container decode function looks for
Needed(e, b) == IF e = "Map" THEN 2 * CountOf(b) ELSE CountOf(b)

\* C24: on a buffer that starts with a count line of count N, Array::decode
\* and Set::decode go past the header exactly when N CRLF lie after the end of
\* the count line, whatever the number of digits of N, and Map::decode when
\* 2 * N do; otherwise they return NotComplete and consume nothing.
C24_ContainerPreScan ==
    (call.entry \in {"Array", "Set", "Map"}
        /\ HasCountLine(call.before, WirePrefix(call.entry))
        /\ Holdable(Slice(call.before, 1, DigitsEnd(call.before, 1))))
    => IF CRLFsFrom(call.before, CountLineLen(call.before)) >= Needed(call.entry, call.before)
       THEN Len(buf) <= Len(call.before) - CountLineLen(call.before)
       ELSE call.st = "NotComplete" /\ buf = call.before

\* a frame without Integer or Double at any depth: the frames whose encoder
\* output is their well-formed wire form
RECURSIVE Numberless(_)
Numberless(f) ==
    CASE Tag(f) \in {"Integer", "Double"} -> FALSE
      [] Tag(f) \in {"Array", "Set"} -> \A i \in 1..Len(Val(f)) : Numberless(Val(f)[i])
      [] Tag(f) = "Map" -> \A i \in 1..Len(Val(f)) : Numberless(Val(f)[i][2])
      [] OTHER -> TRUE

\* the decode functions a caller retries for the frame f
RetriedFor(f) ==
    {"RespFrame"} \cup (IF Tag(f) \in {"Array", "Set", "Map"} THEN {Tag(f)} ELSE {})

\* C25: a decode call on a buffer whose front holds all bytes of a well-formed
\* frame never returns NotComplete, for any variant and any container count
\* (zero and ten or more included), so a caller that waits for more bytes on
\* NotComplete never waits on a complete frame.
C25_RetryProgress ==
    (~raw /\ sent # <<>> /\ call.entry # "none")
    => ((Numberless(sent[1]) /\ call.entry \in RetriedFor(sent[1])
            /\ IsPrefix(RespFrame_encode(sent[1]), call.before))
        => call.st # "NotComplete")

\* C26: encode is injective over Frames: no frame other than the one just
\* encoded has the bytes the encoder returned, an Integer and the
\* SimpleString or SimpleError of the same digits in particular.
C26_EncodeInjective ==
    (enc.st = "Ok" /\ Unread /\ Len(sent) = 1)
    => \A g \in Frames : RespFrame_encode(g) = enc.bytes => g = enc.frame

\* the prefixes Array::decode, Map::decode and Set::decode hand to
\* parse_length and cal_total_length
HeaderPrefixes == {"*", "~"}

\* the total cal_total_length returns on b is below the length of b
TotalBelowLength(b, prefix) ==
    LET below(t) == t.st = "Ok" => usize_lt(t.val, Len(b))
        counted(p) == p.st = "Ok" => below(cal_total_length(b, p.val[2], prefix))
    IN  counted(parse_length(b, prefix))

\* container_header has returned the NotComplete of cal_total_length on b
FromPreScan(b, prefix) ==
    LET counted(p) == p.st = "Ok" /\ cal_total_length(b, p.val[2], prefix).st = "NotComplete"
    IN  counted(parse_length(b, prefix))

\* C27: whenever cal_total_length returns Ok(total_len) on the buffer of
\* Array::decode, Set::decode or Map::decode, total_len is below the length
\* of the buffer, so the guard `buf.len() < total_len` never returns
\* NotComplete: once the count line is parsed, NotComplete from the header
\* is the NotComplete of the pre-scan.
C27_GuardNeverDecides ==
    call.entry \in {"Array", "Set", "Map"}
    => \A prefix \in HeaderPrefixes :
           /\ TotalBelowLength(call.before, prefix)
           /\ (parse_length(call.before, prefix).st = "Ok"
                 /\ container_header(call.before, prefix).st = "NotComplete")
              => FromPreScan(call.before, prefix)

\* the pre-scan has succeeded on a complete one-element array: the total
\* stops two bytes short of the buffer
C27_Witness ==
    /\ call.entry = "Array"
    /\ call.st = "Ok"
    /\ call.before = <<"*", "1">> \o CRLF \o <<"+", "O", "K">> \o CRLF
    /\ cal_total_length(call.before, 1, "*") = Ok(Len(call.before) - CRLF_LEN, call.before)
====
